---- MODULE Spec2Model ----
\* rustty (src/main.rs): a serial terminal.  Three threads: the keyboard
\* reader, the serial reader and the main (dispatcher) loop, joined by one
\* mpsc channel.  The model starts after the port menu, when both handles are
\* open and both threads are spawned (main.rs:168).
\*
\* Environment assumptions: writes to the terminal (stdout) succeed; stdin
\* delivers single-byte keystrokes; the OS hands out the lowest free
\* descriptor on open.
EXTENDS Integers, Sequences, FiniteSets, TLC

\* ---------------------------------------------------------------- bounds
MaxQueue == 2       \* events waiting in the channel
MaxLine == 2        \* bytes typed while the baud prompt is up
MaxCount == 1       \* bytes returned by one serial read
MaxPending == 1     \* unflushed chunks allowed before a write may fail again
MaxPolls == 3       \* serial polls in a row that return nothing

\* ------------------------------------------------------------- byte names
CTRL_A == 1
LF == 10
CTRL_T == 20
CTRL_X == 24
DIGIT9 == 57
LOWER_B == 98
LOWER_C == 99

\* bytes the operator types while main waits in recv or works on an event
KeyBytes == {CTRL_X, CTRL_T, LOWER_B, LOWER_C, CTRL_A}
\* bytes the operator types while the baud prompt is up
LineBytes == {DIGIT9, LF}
\* bytes the device sends
DeviceBytes == {CTRL_X, LOWER_C}

DefaultBaud == 115200
\* the speed the session starts at when the operator just presses Enter
BaudRates == {DefaultBaud}
\* the speeds it starts at when the operator may also type one
TypedBaudRates == {DefaultBaud, 9}

\* ------------------------------------------------------------------ keys
Char(c) == [t |-> "Char", c |-> c]
Ctrl(c) == [t |-> "Ctrl", c |-> c]
NoKey == [t |-> "None", c |-> 0]
KeyCtrlX == Ctrl(120)
KeyCtrlT == Ctrl(116)

\* termion's decoding of one raw stdin byte (single-byte keystrokes only)
parse_event(b) ==
    IF b \in {10, 13} THEN Char(10)
    ELSE IF b = 9 THEN Char(9)
    ELSE IF b = 127 THEN [t |-> "Backspace", c |-> 0]
    ELSE IF b \in 1..26 THEN Ctrl(b - 1 + 97)
    ELSE IF b \in 28..31 THEN Ctrl(b - 28 + 52)
    ELSE IF b = 0 THEN [t |-> "Null", c |-> 0]
    ELSE Char(b)

\* `buffer[i] as char`: the byte becomes the code point of the same value
ByteAsChar(b) == b

\* `c as u8`: truncation of the code point to its low 8 bits
CharAsU8(c) == c % 256

\* `write!(stdout, "{}", c)`: the UTF-8 encoding of the code point
Utf8(c) ==
    IF c < 128 THEN <<c>>
    ELSE IF c < 2048 THEN <<192 + (c \div 64), 128 + (c % 64)>>
    ELSE <<224 + (c \div 4096), 128 + ((c \div 64) % 64), 128 + (c % 64)>>

\* ------------------------------------------------------- display strings
\* "\r\nExiting...\r\n"
MsgExiting ==
    <<13, 10, 69, 120, 105, 116, 105, 110, 103, 46, 46, 46, 13, 10>>
\* "\r\n[Command Mode] "
MsgCommandMode ==
    <<13, 10, 91, 67, 111, 109, 109, 97, 110, 100, 32, 77, 111, 100, 101, 93, 32>>
\* "\r\nEnter new baud rate: "
MsgEnterBaud ==
    <<13, 10, 69, 110, 116, 101, 114, 32, 110, 101, 119, 32, 98, 97, 117, 100,
      32, 114, 97, 116, 101, 58, 32>>
\* "\r\nChanging baud rate to "
MsgChangingPre ==
    <<13, 10, 67, 104, 97, 110, 103, 105, 110, 103, 32, 98, 97, 117, 100, 32,
      114, 97, 116, 101, 32, 116, 111, 32>>
\* "\r\nFailed to change baud rate: "
MsgFailedPre ==
    <<13, 10, 70, 97, 105, 108, 101, 100, 32, 116, 111, 32, 99, 104, 97, 110,
      103, 101, 32, 98, 97, 117, 100, 32, 114, 97, 116, 101, 58, 32>>
\* "\r\nInvalid baud rate\r\n"
MsgInvalidBaud ==
    <<13, 10, 73, 110, 118, 97, 108, 105, 100, 32, 98, 97, 117, 100, 32, 114,
      97, 116, 101, 13, 10>>
\* MsgClear without the cursor-home sequence
MsgClearNoHome ==
    <<27, 91, 50, 74>>
\* "\x1B[2J\x1B[1;1H"
MsgClear ==
    <<27, 91, 50, 74, 27, 91, 49, 59, 49, 72>>
\* "\r\nUnknown command\r\n"
MsgUnknown ==
    <<13, 10, 85, 110, 107, 110, 111, 119, 110, 32, 99, 111, 109, 109, 97, 110,
      100, 13, 10>>
\* "[Terminal Mode]\r\n"
MsgTerminalMode ==
    <<91, 84, 101, 114, 109, 105, 110, 97, 108, 32, 77, 111, 100, 101, 93, 13, 10>>
\* "\r\nError writing to port: "
MsgWriteErrPre ==
    <<13, 10, 69, 114, 114, 111, 114, 32, 119, 114, 105, 116, 105, 110, 103, 32,
      116, 111, 32, 112, 111, 114, 116, 58, 32>>
CRLF == <<13, 10>>
\* the text of the error value `e`, which the operating system supplies
ErrText == <<101, 114, 114>>

\* decimal formatting of an unsigned integer ("{}" of a u32)
RECURSIVE FmtU32(_)
FmtU32(n) ==
    IF n < 10 THEN <<48 + n>> ELSE FmtU32(n \div 10) \o <<48 + (n % 10)>>

\* one write! call on stdout: its bytes, tagged with where the bytes came from
Msg(d) == [src |-> "msg", data |-> d]
Echo(c, src) == [src |-> src, data |-> Utf8(c)]

\* ------------------------------------------------------- str::trim, parse
IsSpace(b) == b \in {9, 10, 11, 12, 13, 32}
IsDigit(b) == b \in 48..57

RECURSIVE TrimStart(_)
TrimStart(s) ==
    IF s # <<>> /\ IsSpace(Head(s)) THEN TrimStart(Tail(s)) ELSE s

RECURSIVE TrimEnd(_)
TrimEnd(s) ==
    IF s # <<>> /\ IsSpace(s[Len(s)])
    THEN TrimEnd(SubSeq(s, 1, Len(s) - 1)) ELSE s

Trim(s) == TrimEnd(TrimStart(s))

RECURSIVE DigitsValue(_)
DigitsValue(s) ==
    IF s = <<>> THEN 0
    ELSE 10 * DigitsValue(SubSeq(s, 1, Len(s) - 1)) + (s[Len(s)] - 48)

\* the decimal digits of u32::MAX, 4294967295
U32MaxDigits == <<52, 50, 57, 52, 57, 54, 55, 50, 57, 53>>

RECURSIVE StripZeros(_)
StripZeros(d) ==
    IF Len(d) > 1 /\ Head(d) = 48 THEN StripZeros(Tail(d)) ELSE d

RECURSIVE DigitsGreater(_, _)
DigitsGreater(a, b) ==
    IF a = <<>> THEN FALSE
    ELSE IF Head(a) # Head(b) THEN Head(a) > Head(b)
    ELSE DigitsGreater(Tail(a), Tail(b))

\* the digits denote a value above u32::MAX
Overflows(d) ==
    LET z == StripZeros(d)
    IN  Len(z) > 10 \/ (Len(z) = 10 /\ DigitsGreater(z, U32MaxDigits))

\* str::parse::<u32>: an optional '+', then one or more digits, no overflow
ParseU32(s) ==
    LET d == IF s # <<>> /\ Head(s) = 43 THEN Tail(s) ELSE s
    IN  IF d # <<>> /\ (\A k \in 1..Len(d) : IsDigit(d[k])) /\ ~Overflows(d)
        THEN [ok |-> TRUE, v |-> DigitsValue(d)]
        ELSE [ok |-> FALSE, v |-> 0]

\* ---------------------------------------------------------------- handles
NoPort == [fd |-> 0, baud |-> 0]
FirstFd == 3

\* the descriptor a successful open returns: the lowest one not in use
LowestFree(S) ==
    LET used == {h.fd : h \in S}
    IN  CHOOSE n \in FirstFd..(FirstFd + Cardinality(S)) :
            /\ n \notin used
            /\ \A m \in FirstFd..(n - 1) : m \in used

\* serialport::new(port_name, baud).open() returning Ok
OpenPort(S, baud) == [fd |-> LowestFree(S), baud |-> baud]

VARIABLES
    polls,         \* serial thread: outcomes of its latest polls (observation):
                   \* the empty polls in a row, then the count that ended them
    keys_err,      \* keyboard thread: the latest keys.next() returned Err (observation)
    keys,          \* keyboard thread: "run" | "done"
    reader,        \* serial thread: "read" | "send" | "done"
    buffer,        \* bytes of the last serial read
    i,             \* index of the next byte of buffer to send
    rx,            \* the channel: events sent and not yet received; an event
                   \* is the Key, with its origin and raw byte kept for observation
    pc,            \* main loop: "recv" | "read_line" | "open" | "assign" | "exited"
    command_mode,
    baud_input,    \* the line read_line has collected so far
    new_baud,
    port,          \* the handle main writes through
    port_clone,    \* the handle the serial thread reads from
    p,             \* the handle a successful reopen returned, before assignment
    open_ports,    \* handles currently open
    stdout,        \* BufWriter: chunks written and not yet flushed
    \* observation of the step in progress (reset whenever an event is received)
    tty,           \* chunks that reached the terminal
    wire,          \* bytes written to the device
    entered,       \* stdin bytes typed since the baud prompt
    last           \* the event received, and the state it was received in

vars == <<keys_err, polls, keys, reader, buffer, i, rx, pc, command_mode, baud_input, new_baud,
          port, port_clone, p, open_ports, stdout, tty, wire, entered, last>>

InitAt(baud_rate) ==
    /\ keys_err = FALSE
    /\ polls = <<>>
    /\ keys = "run"
    /\ reader = "read"
    /\ buffer = <<>>
    /\ i = 1
    /\ rx = <<>>
    /\ pc = "recv"
    /\ command_mode = FALSE
    /\ baud_input = <<>>
    /\ new_baud = 0
    /\ port = [fd |-> FirstFd, baud |-> baud_rate]
    /\ port_clone = [fd |-> FirstFd + 1, baud |-> baud_rate]
    /\ p = NoPort
    /\ open_ports = {port, port_clone}
    /\ stdout = <<>>
    /\ tty = <<>>
    /\ wire = <<>>
    /\ entered = <<>>
    /\ last = [key |-> NoKey, src |-> "none", raw |-> 0, mode |-> FALSE,
               port |-> NoPort, res |-> "none"]

Init == \E baud_rate \in BaudRates : InitAt(baud_rate)

Running == pc # "exited"

\* ------------------------------------------------------- keyboard thread
\* the stdin lock: read_line holds it from its first byte to the newline
StdinFree == ~(pc = "read_line" /\ baud_input # <<>>)

\* KeysBreak, with no break after Ctrl+X
KeysBreakNever(key) == FALSE

\* did the keyboard loop break after sending this key?
KeysBreak(key) == key = KeyCtrlX

\* one iteration of `while let Some(result) = keys.next()` with Ok(key)
KeysNext(b) ==
    /\ Running
    /\ keys = "run"
    /\ StdinFree
    /\ Len(rx) < MaxQueue
    /\ b \in (IF pc = "read_line" THEN LineBytes ELSE KeyBytes)
    /\ pc = "read_line" => Len(entered) < MaxLine
    /\ LET key == parse_event(b)
       IN  /\ rx' = Append(rx, [key |-> key, src |-> "kbd", raw |-> b])
           /\ keys' = IF KeysBreak(key) THEN "done" ELSE "run"
    /\ entered' = IF pc = "read_line" THEN Append(entered, b) ELSE entered
    /\ keys_err' = FALSE
    /\ UNCHANGED <<polls, reader, buffer, i, pc, command_mode, baud_input, new_baud,
                   port, port_clone, p, open_ports, stdout, tty, wire, last>>

\* one iteration with Err(e): `if let Ok(key)` does not match, the body is
\* skipped and the loop calls keys.next() again
KeysError ==
    /\ Running
    /\ keys = "run"
    /\ StdinFree
    /\ keys_err' = TRUE
    /\ UNCHANGED <<polls, keys, reader, buffer, i, rx, pc, command_mode, baud_input,
                   new_baud, port, port_clone, p, open_ports, stdout, tty, wire,
                   entered, last>>

\* keys.next() returns None at the end of stdin: the loop and the thread end
KeysEof ==
    /\ Running
    /\ keys = "run"
    /\ StdinFree
    /\ keys' = "done"
    /\ UNCHANGED <<keys_err, polls, reader, buffer, i, rx, pc, command_mode,
                   baud_input, new_baud, port, port_clone, p, open_ports, stdout,
                   tty, wire, entered, last>>

\* --------------------------------------------------------- serial thread
\* the outcome of a poll is the count it returned, or TimedOut
TimedOut == -1

\* the empty polls in a row that the next poll continues: none once a read
\* has returned data
EmptyRun(ps) == IF ps # <<>> /\ ps[Len(ps)] > 0 THEN <<>> ELSE ps

\* port_clone.read(&mut buffer) returning Ok(count), count > 0
SerialRead(bs) ==
    /\ Running
    /\ reader = "read"
    /\ buffer' = bs
    /\ i' = 1
    /\ reader' = "send"
    /\ polls' = IF EmptyRun(polls) = <<>> THEN <<>> ELSE Append(polls, Len(bs))
    /\ UNCHANGED <<keys_err, keys, rx, pc, command_mode, baud_input, new_baud, port,
                   port_clone, p, open_ports, stdout, tty, wire, entered, last>>

\* SendEvent, always taking the first byte of the buffer
SendEventFirst(buf, k) ==
    [key |-> Char(ByteAsChar(buf[1])), src |-> "dev", raw |-> buf[1]]

\* SendEvent, with the byte decoded the way a keystroke is
SendEventParsed(buf, k) ==
    [key |-> parse_event(buf[k]), src |-> "dev", raw |-> buf[k]]

\* Key::Char(buffer[i] as char), as the channel carries it
SendEvent(buf, k) ==
    [key |-> Char(ByteAsChar(buf[k])), src |-> "dev", raw |-> buf[k]]

\* one iteration of `for i in 0..count`
SerialSend ==
    /\ Running
    /\ reader = "send"
    /\ Len(rx) < MaxQueue
    /\ rx' = Append(rx, SendEvent(buffer, i))
    \* a byte that has been sent is dead, and so is the buffer after the
    \* last one: cleared here
    /\ IF i = Len(buffer)
       THEN reader' = "read" /\ buffer' = <<>> /\ i' = 1
       ELSE reader' = "send" /\ buffer' = [buffer EXCEPT ![i] = 0] /\ i' = i + 1
    /\ UNCHANGED <<keys_err, polls, keys, pc, command_mode, baud_input, new_baud, port,
                   port_clone, p, open_ports, stdout, tty, wire, entered, last>>

\* port_clone.read returning Err of kind TimedOut: the loop goes round
SerialTimeout ==
    /\ Running
    /\ reader = "read"
    /\ Len(EmptyRun(polls)) < MaxPolls
    /\ polls' = Append(EmptyRun(polls), TimedOut)
    /\ UNCHANGED <<keys_err, keys, reader, buffer, i, rx, pc, command_mode, baud_input,
                   new_baud, port, port_clone, p, open_ports, stdout, tty, wire,
                   entered, last>>

\* port_clone.read returning Ok(0): the `_` arm, the loop goes round
SerialReadZero ==
    /\ Running
    /\ reader = "read"
    /\ Len(EmptyRun(polls)) < MaxPolls
    /\ polls' = Append(EmptyRun(polls), 0)
    /\ UNCHANGED <<keys_err, keys, reader, buffer, i, rx, pc, command_mode, baud_input,
                   new_baud, port, port_clone, p, open_ports, stdout, tty, wire,
                   entered, last>>

\* SerialReadError, with the error ending the whole program
SerialReadErrorExits ==
    /\ Running
    /\ reader = "read"
    /\ reader' = "done"
    /\ pc' = "exited"
    /\ UNCHANGED <<keys_err, polls, keys, buffer, i, rx, command_mode, baud_input,
                   new_baud, port, port_clone, p, open_ports, stdout, tty, wire,
                   entered, last>>

\* port_clone.read returning an error other than TimedOut
SerialReadError ==
    /\ Running
    /\ reader = "read"
    /\ reader' = "done"
    /\ UNCHANGED <<keys_err, polls, keys, buffer, i, rx, pc, command_mode, baud_input, new_baud,
                   port, port_clone, p, open_ports, stdout, tty, wire, entered,
                   last>>

\* ------------------------------------------------------------- main loop
\* Arm, with Ctrl+X looked at only outside command mode
ArmExitOnlyNormal(key, mode) ==
    IF key = KeyCtrlT THEN "enter"
    ELSE IF mode
         THEN IF key = Char(LOWER_B) THEN "baud"
              ELSE IF key = Char(LOWER_C) THEN "clear"
              ELSE "unknown"
         ELSE IF key = KeyCtrlX THEN "exit"
         ELSE IF key.t = "Char" THEN "write" ELSE "ignore"

\* Arm, with a character that is no command sent on to the device
ArmUnknownWrites(key, mode) ==
    IF key = KeyCtrlX THEN "exit"
    ELSE IF key = KeyCtrlT THEN "enter"
    ELSE IF mode /\ key = Char(LOWER_B) THEN "baud"
    ELSE IF mode /\ key = Char(LOWER_C) THEN "clear"
    ELSE IF key.t = "Char" THEN "write"
    ELSE IF mode THEN "unknown" ELSE "ignore"

\* which arm of the match at main.rs:172 takes the key, given command_mode
Arm(key, mode) ==
    IF key = KeyCtrlX THEN "exit"
    ELSE IF key = KeyCtrlT THEN "enter"
    ELSE IF mode
         THEN IF key = Char(LOWER_B) THEN "baud"
              ELSE IF key = Char(LOWER_C) THEN "clear"
              ELSE "unknown"
         ELSE IF key.t = "Char" THEN "write" ELSE "ignore"

\* NextMode, with the reset missing from the unknown-command arm
NextModeSticky(arm, mode) ==
    IF arm = "enter" THEN TRUE
    ELSE IF arm \in {"baud", "clear"} THEN FALSE
    ELSE mode

\* NextMode, with Ctrl+T switching the mode over instead of setting it
NextModeToggle(arm, mode) ==
    IF arm = "enter" THEN ~mode
    ELSE IF arm \in {"baud", "clear", "unknown"} THEN FALSE
    ELSE mode

\* command_mode once the arm has run to its end
NextMode(arm, mode) ==
    IF arm = "enter" THEN TRUE
    ELSE IF arm \in {"baud", "clear", "unknown"} THEN FALSE
    ELSE mode

\* what the arms of the inner command match write before the common tail
CommandWrites(arm) ==
    IF arm = "clear" THEN <<Msg(MsgClear)>>
    ELSE IF arm = "unknown" THEN <<Msg(MsgUnknown)>>
    ELSE <<>>

\* the tail of the command branch: the banner written before the flush
TailWrites == <<Msg(MsgTerminalMode)>>

\* Reassigned, with the Err arm giving up the old handle
ReassignedLosing(res, old) == IF res.ok THEN res.p ELSE NoPort

\* `port = match open() { Ok(p) => p, Err(e) => port }`
Reassigned(res, old) == IF res.ok THEN res.p ELSE old

\* rx.recv() returning Ok(ev.key); the observation windows start afresh
Receive(ev, arm) ==
    /\ pc = "recv"
    /\ rx # <<>>
    /\ ev = Head(rx)
    /\ Arm(ev.key, command_mode) = arm
    /\ rx' = Tail(rx)
    /\ entered' = <<>>

Seen(ev, res) ==
    [key |-> ev.key, src |-> ev.src, raw |-> ev.raw, mode |-> command_mode,
     port |-> port, res |-> res]

\* Ok(Key::Ctrl('x'))
RecvExit ==
    \E ev \in {Head(rx) : x \in {1} \cap DOMAIN rx} :
        /\ Receive(ev, "exit")
        /\ tty' = stdout \o <<Msg(MsgExiting)>>
        /\ stdout' = <<>>
        /\ wire' = <<>>
        /\ pc' = "exited"
        /\ last' = Seen(ev, "exit")
        /\ UNCHANGED <<keys_err, polls, keys, reader, buffer, i, command_mode, baud_input,
                       new_baud, port, port_clone, p, open_ports>>

\* Ok(Key::Ctrl('t'))
RecvCommandKey ==
    \E ev \in {Head(rx) : x \in {1} \cap DOMAIN rx} :
        /\ Receive(ev, "enter")
        /\ command_mode' = NextMode("enter", command_mode)
        /\ tty' = stdout \o <<Msg(MsgCommandMode)>>
        /\ stdout' = <<>>
        /\ wire' = <<>>
        /\ last' = Seen(ev, "enter")
        /\ UNCHANGED <<keys_err, polls, keys, reader, buffer, i, pc, baud_input, new_baud, port,
                       port_clone, p, open_ports>>

\* command mode, Key::Char('b'): the prompt, then main blocks in read_line
RecvBaud ==
    \E ev \in {Head(rx) : x \in {1} \cap DOMAIN rx} :
        /\ Receive(ev, "baud")
        /\ tty' = stdout \o <<Msg(MsgEnterBaud)>>
        /\ stdout' = <<>>
        /\ wire' = <<>>
        /\ baud_input' = <<>>
        /\ pc' = "read_line"
        /\ last' = Seen(ev, "prompt")
        /\ UNCHANGED <<keys_err, polls, keys, reader, buffer, i, command_mode, new_baud, port,
                       port_clone, p, open_ports>>

\* command mode, Key::Char('c') or any other key
RecvCommand(arm) ==
    \E ev \in {Head(rx) : x \in {1} \cap DOMAIN rx} :
        /\ Receive(ev, arm)
        /\ command_mode' = NextMode(arm, command_mode)
        /\ tty' = stdout \o CommandWrites(arm) \o TailWrites
        /\ stdout' = <<>>
        /\ wire' = <<>>
        /\ last' = Seen(ev, arm)
        /\ UNCHANGED <<keys_err, polls, keys, reader, buffer, i, pc, baud_input, new_baud, port,
                       port_clone, p, open_ports>>

RecvClear == RecvCommand("clear")

RecvUnknown == RecvCommand("unknown")

\* normal mode, Key::Char(c), port.write_all succeeds
RecvWriteOk ==
    \E ev \in {Head(rx) : x \in {1} \cap DOMAIN rx} :
        /\ Receive(ev, "write")
        /\ wire' = <<[byte |-> CharAsU8(ev.key.c), fd |-> port.fd,
                      baud |-> port.baud, src |-> ev.src]>>
        /\ tty' = stdout \o <<Echo(ev.key.c, ev.src)>>
        /\ stdout' = <<>>
        /\ last' = Seen(ev, "sent")
        /\ UNCHANGED <<keys_err, polls, keys, reader, buffer, i, pc, command_mode, baud_input,
                       new_baud, port, port_clone, p, open_ports>>

\* normal mode, Key::Char(c), port.write_all fails
RecvWriteErr ==
    \E ev \in {Head(rx) : x \in {1} \cap DOMAIN rx} :
        /\ Receive(ev, "write")
        /\ Len(stdout) < MaxPending
        /\ wire' = <<>>
        /\ stdout' = Append(stdout, Msg(MsgWriteErrPre \o ErrText \o CRLF))
        /\ tty' = <<>>
        /\ last' = Seen(ev, "write_err")
        /\ UNCHANGED <<keys_err, polls, keys, reader, buffer, i, pc, command_mode, baud_input,
                       new_baud, port, port_clone, p, open_ports>>

\* normal mode, any key that is not Key::Char
RecvIgnore ==
    \E ev \in {Head(rx) : x \in {1} \cap DOMAIN rx} :
        /\ Receive(ev, "ignore")
        /\ wire' = <<>>
        /\ tty' = <<>>
        /\ last' = Seen(ev, "ignore")
        /\ UNCHANGED <<keys_err, polls, keys, reader, buffer, i, pc, command_mode, baud_input,
                       new_baud, port, port_clone, p, open_ports, stdout>>

\* the end of the command branch (main.rs:214-216), reached from the 'b' arm
BaudTail(res, writes) ==
    /\ command_mode' = NextMode("baud", command_mode)
    /\ tty' = tty \o stdout \o writes \o TailWrites
    /\ stdout' = <<>>
    /\ pc' = "recv"
    \* baud_input and new_baud go out of scope
    /\ baud_input' = <<>>
    /\ new_baud' = 0
    /\ last' = [last EXCEPT !.res = res]

\* read_line takes one more byte of the line
ReadLineByte(b) ==
    /\ pc = "read_line"
    /\ b # LF
    /\ Len(entered) < MaxLine
    /\ baud_input' = Append(baud_input, b)
    /\ entered' = Append(entered, b)
    /\ UNCHANGED <<keys_err, polls, keys, reader, buffer, i, rx, pc, command_mode, new_baud,
                   port, port_clone, p, open_ports, stdout, tty, wire, last>>

\* read_line takes the newline and returns; the line parses
ReadLineParsed ==
    /\ pc = "read_line"
    /\ Len(entered) < MaxLine
    /\ LET r == ParseU32(Trim(Append(baud_input, LF)))
       IN  /\ r.ok
           /\ new_baud' = r.v
           /\ stdout' = Append(stdout, Msg(MsgChangingPre \o FmtU32(r.v) \o CRLF))
    /\ baud_input' = Append(baud_input, LF)
    /\ entered' = Append(entered, LF)
    /\ pc' = "open"
    /\ UNCHANGED <<keys_err, polls, keys, reader, buffer, i, rx, command_mode, port, port_clone,
                   p, open_ports, tty, wire, last>>

\* read_line takes the newline and returns; the line does not parse
ReadLineInvalid ==
    /\ pc = "read_line"
    /\ Len(entered) < MaxLine
    /\ ~ParseU32(Trim(Append(baud_input, LF))).ok
    /\ entered' = Append(entered, LF)
    /\ BaudTail("parse_err", <<Msg(MsgInvalidBaud)>>)
    /\ UNCHANGED <<keys_err, polls, keys, reader, buffer, i, rx, port, port_clone, p,
                   open_ports, wire>>

\* serialport::new(port_name, new_baud).open() returns Ok(p): both are open
OpenOk ==
    /\ pc = "open"
    /\ p' = OpenPort(open_ports, new_baud)
    /\ open_ports' = open_ports \cup {p'}
    /\ pc' = "assign"
    /\ UNCHANGED <<keys_err, polls, keys, reader, buffer, i, rx, command_mode, baud_input,
                   new_baud, port, port_clone, stdout, tty, wire, entered, last>>

\* Assign, with the serial thread's handle replaced as well
AssignBoth ==
    /\ pc = "assign"
    /\ port' = Reassigned([ok |-> TRUE, p |-> p], port)
    /\ port_clone' = [port_clone EXCEPT !.baud = port'.baud]
    /\ open_ports' = (open_ports \ ({port} \ {port'})) \cup {port_clone'}
    /\ p' = NoPort
    /\ BaudTail("baud_ok", <<>>)
    /\ UNCHANGED <<keys_err, polls, keys, reader, buffer, i, rx, wire, entered>>

\* the assignment to `port` drops the handle it held
Assign ==
    /\ pc = "assign"
    /\ port' = Reassigned([ok |-> TRUE, p |-> p], port)
    /\ open_ports' = open_ports \ ({port} \ {port'})
    /\ p' = NoPort
    /\ BaudTail("baud_ok", <<>>)
    /\ UNCHANGED <<keys_err, polls, keys, reader, buffer, i, rx, port_clone, wire, entered>>

\* open() returns Err(e): the message, and `port` is assigned itself
OpenErr ==
    /\ pc = "open"
    /\ port' = Reassigned([ok |-> FALSE, p |-> NoPort], port)
    /\ open_ports' = open_ports \ ({port} \ {port'})
    /\ BaudTail("open_err", <<Msg(MsgFailedPre \o ErrText \o CRLF)>>)
    /\ UNCHANGED <<keys_err, polls, keys, reader, buffer, i, rx, port_clone, p, wire, entered>>

\* ---------------------------------------------------------- specification
SerialBuffers ==
    UNION {[1..n -> DeviceBytes] : n \in 1..MaxCount}

Next ==
    \/ \E b \in KeyBytes \cup LineBytes : KeysNext(b)
    \/ \E bs \in SerialBuffers : SerialRead(bs)
    \/ SerialSend
    \/ SerialReadError
    \/ RecvExit
    \/ RecvCommandKey
    \/ RecvBaud
    \/ RecvClear
    \/ RecvUnknown
    \/ RecvWriteOk
    \/ RecvWriteErr
    \/ RecvIgnore
    \/ \E b \in LineBytes : ReadLineByte(b)
    \/ ReadLineParsed
    \/ ReadLineInvalid
    \/ OpenOk
    \/ Assign
    \/ OpenErr

Spec == Init /\ [][Next]_vars

\* Senders, had main dropped its own `tx` once the clones were made
SendersOfThreads ==
    (IF keys = "run" THEN {"keys"} ELSE {})
        \cup (IF reader # "done" THEN {"serial"} ELSE {})

\* the senders of the channel that are alive: `tx`, which main holds till it
\* returns, and the clone moved into each thread, dropped when the thread ends
Senders ==
    (IF Running THEN {"tx"} ELSE {})
        \cup (IF keys = "run" THEN {"keys"} ELSE {})
        \cup (IF reader # "done" THEN {"serial"} ELSE {})

\* rx.recv() returning Err: the channel is empty and no sender is left
RecvErr ==
    /\ pc = "recv"
    /\ rx = <<>>
    /\ Senders = {}
    /\ pc' = "exited"
    /\ UNCHANGED <<keys_err, polls, keys, reader, buffer, i, rx, command_mode,
                   baud_input, new_baud, port, port_clone, p, open_ports, stdout,
                   tty, wire, entered, last>>

\* main receives an event
MainReceives ==
    \/ RecvExit
    \/ RecvCommandKey
    \/ RecvBaud
    \/ RecvClear
    \/ RecvUnknown
    \/ RecvWriteOk
    \/ RecvWriteErr
    \/ RecvIgnore

\* the steps main takes without waiting for the operator: receiving an event
\* that is in the channel, and the reopen with its assignment
MainRuns ==
    \/ MainReceives
    \/ OpenOk
    \/ OpenErr
    \/ Assign

\* The program with its threads scheduled fairly: main goes on whenever it
\* can, and so does the serial thread's send loop. What the operator types
\* and what the device sends is up to them.
SpecFair ==
    /\ Init
    /\ [][Next]_vars
    /\ WF_vars(MainRuns)
    /\ WF_vars(SerialSend)

\* The program started at the default speed or at a typed one
InitTyped == \E baud_rate \in TypedBaudRates : InitAt(baud_rate)

SpecTyped == InitTyped /\ [][Next]_vars

\* The program with keyboard reads that can fail
NextKeysError ==
    \/ Next
    \/ KeysError

SpecKeysError == Init /\ [][NextKeysError]_vars

\* The program with a stdin that can come to its end
NextEof ==
    \/ Next
    \/ KeysEof

SpecEof == Init /\ [][NextEof]_vars

\* The serial thread with every poll visible, beside a silent keyboard: main
\* receives what the thread sends. A read returns up to MaxCount + 1 bytes.
PollBuffers ==
    UNION {[1..n -> DeviceBytes] : n \in 1..(MaxCount + 1)}

NextPoll ==
    \/ \E bs \in PollBuffers : SerialRead(bs)
    \/ SerialSend
    \/ SerialTimeout
    \/ SerialReadZero
    \/ SerialReadError
    \/ RecvWriteOk
    \/ RecvWriteErr

SpecPoll == Init /\ [][NextPoll]_vars

\* ================================================================ claims
\* the bytes of a sequence of chunks, in order
RECURSIVE Flatten(_)
Flatten(chunks) ==
    IF chunks = <<>> THEN <<>> ELSE Head(chunks).data \o Flatten(Tail(chunks))

\* the chunks of a given origin
OfSrc(chunks, src) == SelectSeq(chunks, LAMBDA ch : ch.src = src)

\* main is between two events: the last one received is fully handled
Handled == pc = "recv" /\ last.res # "none"

BannerBytes ==
    <<91, 84, 101, 114, 109, 105, 110, 97, 108, 32, 77, 111, 100, 101, 93, 13, 10>>

\* C1 (as stated): after an event received in command mode has been handled,
\* the mode is Normal, whatever the event was.
C1_Original ==
    (pc \in {"recv", "exited"} /\ last.mode) => ~command_mode

\* C1 (amended): after an event received in command mode has been handled and
\* main is still in its loop, the mode is Normal unless the event was Ctrl+T,
\* which leaves it Command; Ctrl+X ends the loop with the mode as it was.
C1_ReturnsToNormal ==
    /\ (pc = "recv" /\ last.mode) => (command_mode <=> last.key = KeyCtrlT)
    /\ pc = "exited" => command_mode = last.mode

C1_Witness ==
    pc = "recv" /\ last.mode /\ last.res = "open_err" /\ ~command_mode

\* C2: once a device-origin event has been handled, the device bytes that
\* reached the terminal for it are exactly the byte the device sent.
C2_DeviceFidelity ==
    (Handled /\ last.src = "dev") => Flatten(OfSrc(tty, "dev")) = <<last.raw>>

\* C3: a device-origin event received in command mode runs no speed-change
\* and no clear-display action, and its byte is displayed verbatim.
C3_DeviceNeverCommand ==
    (last.src = "dev" /\ last.mode) =>
        /\ last.res \notin {"prompt", "baud_ok", "parse_err", "open_err", "clear"}
        /\ Handled => [src |-> "dev", data |-> <<last.raw>>] \in
                          {tty[k] : k \in DOMAIN tty}

\* C4: a keystroke other than Ctrl+X and Ctrl+T handled in normal mode, its
\* write not failing, puts exactly its byte on the device and echoes that
\* byte once.
C4_KeystrokeForwarded ==
    (Handled /\ last.src = "kbd" /\ ~last.mode
        /\ last.key \notin {KeyCtrlX, KeyCtrlT} /\ last.res # "write_err") =>
        /\ Len(wire) = 1
        /\ wire[1].byte = last.raw
        /\ OfSrc(tty, "kbd") = <<[src |-> "kbd", data |-> <<last.raw>>]>>

\* the line the operator typed at the prompt: up to the first newline
RECURSIVE FirstLine(_)
FirstLine(s) ==
    IF s = <<>> THEN <<>>
    ELSE IF Head(s) = LF THEN <<LF>>
    ELSE <<Head(s)>> \o FirstLine(Tail(s))

\* C5: when the operator's 'b' command has been handled, the line typed at
\* the prompt parses as a speed S and the reopen did not fail, the write
\* handle is open at speed S, and what is written goes through it.
C5_SpeedEntered ==
    (Handled /\ last.src = "kbd" /\ last.res \in {"baud_ok", "parse_err"}
        /\ ParseU32(Trim(FirstLine(entered))).ok) =>
        /\ port.baud = ParseU32(Trim(FirstLine(entered))).v
        /\ port \in open_ports

\* C6: a speed change that fails (the line does not parse, or the open
\* fails) leaves `port` the handle it was, still open, reports the failure
\* on the terminal and leaves main in its loop in Normal mode; `port` changes
\* in no other step than the assignment of a successful reopen, and every
\* write to the device goes through the handle `port` holds.
C6_FailedChangeKeepsHandle ==
    [][/\ (pc' = "recv" /\ pc # "recv" /\ last'.res \in {"parse_err", "open_err"}) =>
            /\ port' = last'.port
            /\ port' = port
            /\ port' \in open_ports'
            /\ open_ports' = open_ports
            /\ ~command_mode'
            /\ stdout' = <<>>
            /\ \E k \in DOMAIN tty' :
                tty'[k].data = IF last'.res = "parse_err"
                               THEN MsgInvalidBaud
                               ELSE MsgFailedPre \o ErrText \o CRLF
       /\ port' # port => (pc = "assign" /\ port' = p)
       /\ (wire' # wire /\ wire' # <<>>) =>
            (wire'[1].fd = port'.fd /\ wire'[1].baud = port'.baud /\ port' = port)
      ]_vars

C6_Witness ==
    /\ Handled
    /\ last.res = "open_err"
    /\ port = last.port
    /\ port \in open_ports

\* C7: a normal-mode byte whose write fails is reported on the terminal and
\* not echoed; mode and handle stay as they were and main stays in its loop.
C7_WriteErrorReported ==
    (Handled /\ last.res = "write_err") =>
        /\ \E k \in DOMAIN tty : tty[k].data = MsgWriteErrPre \o ErrText \o CRLF
        /\ OfSrc(tty, last.src) = <<>>
        /\ command_mode = last.mode
        /\ port = last.port
        /\ wire = <<>>

\* C8 (as stated): handling 'c' in command mode puts ESC [ 2 J ESC [ 1 ; 1 H
\* on the terminal and nothing else, and nothing on the device.
C8_Original ==
    (Handled /\ last.res = "clear") =>
        /\ Flatten(tty) = <<27, 91, 50, 74, 27, 91, 49, 59, 49, 72>>
        /\ wire = <<>>

\* C8 (amended): handling 'c' in command mode puts ESC [ 2 J ESC [ 1 ; 1 H
\* followed by "[Terminal Mode]\r\n" on the terminal and nothing else, leaves
\* nothing unflushed, and puts nothing on the device.
C8_ClearThenBanner ==
    (Handled /\ last.res = "clear") =>
        /\ Flatten(tty) = <<27, 91, 50, 74, 27, 91, 49, 59, 49, 72>> \o BannerBytes
        /\ stdout = <<>>
        /\ wire = <<>>

C8_Witness ==
    Handled /\ last.res = "clear" /\ last.mode /\ last.key = Char(LOWER_C)

\* C9: receiving Ctrl+X, in either mode, takes only that event from the
\* channel, writes nothing to the device, runs no command (mode and handle
\* untouched) and ends the loop; once the loop has ended nothing happens.
C9_TerminateEndsLoop ==
    [][/\ pc # "exited"
       /\ (pc = "recv" /\ rx # <<>> /\ rx' # rx /\ Len(rx') <= Len(rx)
            /\ Head(rx).key = KeyCtrlX) =>
            /\ pc' = "exited"
            /\ rx' = Tail(rx)
            /\ wire' = <<>>
            /\ UNCHANGED <<command_mode, port, open_ports, p>>
      ]_vars

C9_Witness ==
    pc = "exited" /\ last.key = KeyCtrlX /\ last.mode /\ rx # <<>>

\* C10: at most one handle main writes through is open at any moment.
C10_OneWriteHandle ==
    Cardinality(open_ports \ {port_clone}) <= 1


\* the serial thread has taken a step
SerialMoved == <<reader, buffer, i>>' # <<reader, buffer, i>>

\* C11: the serial thread sends exactly one event per byte a read returned, in
\* buffer order, and goes back to polling after the last one; nothing else
\* adds an event; a poll that times out or returns zero bytes sends nothing
\* and leaves the thread polling; a read that returns data sends nothing
\* itself and starts the sending at the first byte.
C11_OneEventPerByte ==
    [][/\ (reader = "send" /\ SerialMoved) =>
            /\ i \in 1..Len(buffer)
            /\ rx' = Append(rx, [key |-> Char(buffer[i]), src |-> "dev",
                                 raw |-> buffer[i]])
            /\ IF i < Len(buffer)
               THEN /\ reader' = "send"
                    /\ i' = i + 1
                    /\ Len(buffer') = Len(buffer)
                    /\ \A k \in (i + 1)..Len(buffer) : buffer'[k] = buffer[k]
               ELSE reader' = "read"
       /\ Len(rx') > Len(rx) => (reader = "send" /\ SerialMoved)
       /\ (polls' # polls /\ polls' # <<>> /\ polls'[Len(polls')] <= 0) =>
            (rx' = rx /\ reader = "read" /\ reader' = "read")
       /\ (reader = "read" /\ reader' = "send") =>
            /\ rx' = rx
            /\ i' = 1
            /\ buffer' # <<>>
            /\ polls' # <<>> => polls'[Len(polls')] = Len(buffer')
      ]_vars

\* three timeouts in a row, then a read of one byte: its event is in the
\* channel and the thread is polling again
C11_Witness ==
    /\ polls = <<TimedOut, TimedOut, TimedOut, 1>>
    /\ reader = "read"
    /\ rx # <<>>
    /\ rx[Len(rx)].src = "dev"
    /\ rx[Len(rx)].key = Char(rx[Len(rx)].raw)

\* main takes the event at the head of the channel
Dequeues == pc = "recv" /\ rx # <<>> /\ Len(rx') < Len(rx)

\* C12: receiving Ctrl+T leaves main in command mode whatever the mode was,
\* back at the receive; nothing goes to the device, no handle changes, and the
\* terminal gets the command-mode prompt and no banner. The character
\* received next after a Ctrl+T taken in command mode is handled as a command.
C12_EnterCommandMode ==
    [][/\ (Dequeues /\ Head(rx).key = KeyCtrlT) =>
            /\ command_mode'
            /\ pc' = "recv"
            /\ wire' = <<>>
            /\ tty' = stdout \o <<Msg(MsgCommandMode)>>
            /\ stdout' = <<>>
            /\ UNCHANGED <<port, port_clone, p, open_ports>>
       /\ (Dequeues /\ last.key = KeyCtrlT /\ last.mode /\ Head(rx).key.t = "Char") =>
            /\ last'.res \in {"prompt", "clear", "unknown"}
            /\ wire' = <<>>
      ]_vars

\* Ctrl+T received in command mode has been handled
C12_Witness ==
    /\ Handled
    /\ last.key = KeyCtrlT
    /\ last.mode
    /\ command_mode
    /\ tty # <<>>

\* a keyboard event is added to the channel
KbdAppends == Len(rx') > Len(rx) /\ rx'[Len(rx')].src = "kbd"

\* C13 (as stated): once a read of the keyboard has failed, the keyboard
\* thread has ended: it sends no further event.
C13_ReadErrorEndsKeys ==
    [][keys_err => (keys = "done" /\ ~KbdAppends)]_vars

\* the raw bytes of the keyboard events of a queue, in order
KbdRaw(q) ==
    LET ks == SelectSeq(q, LAMBDA ev : ev.src = "kbd")
    IN  [k \in 1..Len(ks) |-> ks[k].raw]

\* the last n elements of a sequence
Suffix(sq, n) == SubSeq(sq, Len(sq) - n + 1, Len(sq))

\* C14 (as stated): when the keyboard thread forwards Ctrl+X while main is
\* busy with a baud change, every byte typed since the prompt has been
\* forwarded before it, in typing order.
C14_Original ==
    [][(pc \in {"read_line", "open", "assign"} /\ keys = "run" /\ keys' = "done") =>
            /\ Len(KbdRaw(rx)) >= Len(entered)
            /\ Suffix(KbdRaw(rx), Len(entered)) = entered
      ]_vars

\* C14 (amended): every key the keyboard thread reads goes to the end of the
\* channel as that key; the thread stops when, and only when, the key it has
\* just sent is Ctrl+X, and a stopped thread sends nothing more. Of the bytes
\* typed at the baud prompt, those the thread read are in the channel in
\* typing order, and those read_line took are not forwarded at all.
C14_ForwardsInOrder ==
    [][/\ KbdAppends =>
            /\ keys = "run"
            /\ rx' = Append(rx, rx'[Len(rx')])
            /\ rx'[Len(rx')].key = parse_event(rx'[Len(rx')].raw)
            /\ keys' = "done" <=> rx'[Len(rx')].key = KeyCtrlX
       /\ keys = "done" => keys' = "done"
       /\ pc = "read_line" =>
            /\ Len(entered) >= Len(baud_input)
            /\ Len(KbdRaw(rx)) >= Len(entered) - Len(baud_input)
            /\ entered = Suffix(KbdRaw(rx), Len(entered) - Len(baud_input))
                            \o baud_input
      ]_vars

\* Ctrl+X is in the channel behind a key typed before it, and the thread
\* has stopped
C14_Witness ==
    /\ keys = "done"
    /\ Len(rx) = 2
    /\ rx[1].src = "kbd"
    /\ rx[1].key # KeyCtrlX
    /\ rx[2] = [key |-> KeyCtrlX, src |-> "kbd", raw |-> CTRL_X]

\* C15: the step in which the serial read fails ends the serial thread and
\* changes nothing else: the channel, main's position and mode, the handles
\* and the keyboard thread are as they were. From then on the thread stays
\* ended and no event is added to the channel except by the keyboard; main,
\* waiting with an event in the channel, can receive it, and the keyboard
\* events it receives are handled by the arm their key and the mode select.
C15_ReadErrorEndsSerialOnly ==
    [][/\ (reader # "done" /\ reader' = "done") =>
            /\ reader = "read"
            /\ UNCHANGED <<keys, rx, pc, command_mode, port, port_clone, p,
                           open_ports, stdout, tty, wire, last>>
       /\ reader = "done" =>
            /\ reader' = "done"
            /\ Len(rx') > Len(rx) => KbdAppends
            /\ (pc = "recv" /\ rx # <<>>) => ENABLED MainReceives
            /\ (Dequeues /\ Head(rx).src = "kbd") =>
                    /\ last'.key = Head(rx).key
                    /\ last'.res \in {"exit", "enter", "prompt", "clear",
                                      "unknown", "sent", "write_err", "ignore"}
                    /\ last'.res \in {"sent", "write_err"} <=>
                            Arm(Head(rx).key, command_mode) = "write"
      ]_vars

\* the serial thread has ended on an error and main has since sent a typed
\* character to the device
C15_Witness ==
    /\ reader = "done"
    /\ Handled
    /\ last.src = "kbd"
    /\ last.res = "sent"
    /\ wire # <<>>
    /\ rx # <<>>
    /\ rx[1].src = "kbd"

\* the two handles are open at the same speed
SameSpeed == port.baud = port_clone.baud

C17_CommandIsLocal ==
    (last.mode /\ last.res # "none") =>
        /\ wire = <<>>
        /\ \A k \in 1..Len(tty) : tty[k].src = "msg"
        /\ \A k \in 1..Len(stdout) : stdout[k].src = "msg"
        /\ last.key \notin {KeyCtrlX, KeyCtrlT} =>
            /\ last.res \in {"prompt", "baud_ok", "parse_err", "open_err",
                              "clear", "unknown"}
            /\ last.res = "clear" <=> last.key = Char(LOWER_C)
            /\ last.res = "unknown" <=> last.key \notin {Char(LOWER_B), Char(LOWER_C)}
        /\ (Handled /\ last.res = "unknown") =>
            /\ Flatten(tty) = MsgUnknown \o BannerBytes
            /\ stdout = <<>>
            /\ ~command_mode
            /\ port = last.port
            /\ p = NoPort
            /\ open_ports = {port, port_clone}

\* a typed key that is no command has been handled in command mode
C17_Witness ==
    /\ Handled
    /\ last.mode
    /\ last.res = "unknown"
    /\ last.src = "kbd"
    /\ ~command_mode

\* the keyboard thread's Ctrl+X is in the channel
TerminateQueued ==
    \E k \in DOMAIN rx : rx[k].key = KeyCtrlX /\ rx[k].src = "kbd"

\* C18: with the threads scheduled fairly, once the keyboard thread's Ctrl+X
\* is in the channel main eventually leaves its loop.
C18_TerminateEventuallyExits ==
    TerminateQueued ~> pc = "exited"

\* C19: the event the serial thread makes of a device byte, the codes of
\* Ctrl+X and Ctrl+T included, is never taken by the exit arm or the
\* enter-command-mode arm of main, in either mode. So an event from the
\* device has never ended the loop, and when one has been handled main is in
\* command mode only if it was before; a loop that has ended was ended by
\* an event from the keyboard.
C19_DeviceCannotControl ==
    /\ \A b \in DeviceBytes \cup {CTRL_X, CTRL_T} : \A mode \in BOOLEAN :
            Arm(SendEvent(<<b>>, 1).key, mode) \notin {"exit", "enter"}
    /\ (last.src = "dev" /\ last.res # "none") =>
            /\ last.res \notin {"exit", "enter"}
            /\ pc # "exited"
            /\ command_mode => last.mode
    /\ pc = "exited" => (last.src = "kbd" /\ last.raw = CTRL_X)

\* the device has sent the code of Ctrl+X in normal mode and main has
\* handled it: the loop goes on, in normal mode
C19_Witness ==
    /\ Handled
    /\ last.src = "dev"
    /\ last.raw = CTRL_X
    /\ ~last.mode
    /\ ~command_mode

\* C20: the Err arm of the receive can never be taken, since it needs every
\* sender dropped and main holds one; a loop that has ended was ended by
\* Ctrl+X. When both threads have ended and main waits on the empty channel,
\* no step is possible: main waits forever.
C20_ChannelStaysOpen ==
    /\ ~ENABLED RecvErr
    /\ pc = "exited" => last.res = "exit"
    /\ (keys = "done" /\ reader = "done" /\ pc = "recv" /\ rx = <<>>) =>
            ~ENABLED NextEof

\* stdin has ended, the serial read has failed, and main has handled the
\* last event, which was not Ctrl+X: it waits on the empty channel
C20_Witness ==
    /\ keys = "done"
    /\ reader = "done"
    /\ Handled
    /\ last.key # KeyCtrlX
    /\ rx = <<>>
    /\ Senders = {"tx"}

====
